---- MODULE Spec2Model ----
(***************************************************************************)
(* State-machine model of pyod.models.deep_svdd.DeepSVDD: construction,    *)
(* fit and decision_function on one estimator instance.                    *)
(*                                                                         *)
(* Real numbers are fixed-point integers in units of 1/Scale.  An absent   *)
(* attribute (or a None value) is the empty tuple, a present one a         *)
(* one-element tuple.  A 2-D array is a sequence of rows.                  *)
(***************************************************************************)
EXTENDS Integers, Sequences, FiniteSets, TLC

\* ------------------------------------------------------------------ bounds
\* fixed-point resolution: the real number 1.0
Scale == 100
\* fit calls made on the instance in one behaviour
MaxFits == 2

\* ----------------------------------------------------------------- helpers
None == <<>>
Some(v) == <<v>>
Get(o) == o[1]

RECURSIVE SumSeq(_)
SumSeq(s) == IF s = <<>> THEN 0 ELSE Head(s) + SumSeq(Tail(s))

RECURSIVE MinSeq(_)
MinSeq(s) ==
    IF Len(s) = 1 THEN s[1]
    ELSE LET m == MinSeq(Tail(s)) IN IF s[1] < m THEN s[1] ELSE m

Abs(x) == IF x < 0 THEN -x ELSE x

RECURSIVE Tab(_, _)
\* the sequence <<F(1), ..., F(n)>>
Tab(F(_), n) == IF n = 0 THEN <<>> ELSE Append(Tab(F, n - 1), F(n))

RECURSIVE SqrtBetween(_, _, _)
\* the r in lo..hi with r * r <= v < (r + 1) * (r + 1), by bisection
SqrtBetween(v, lo, hi) ==
    IF lo = hi THEN lo
    ELSE LET mid == (lo + hi + 1) \div 2
         IN IF mid * mid <= v THEN SqrtBetween(v, mid, hi)
            ELSE SqrtBetween(v, lo, mid - 1)

\* floor of the square root (np.sqrt on the variance)
Sqrt(v) == SqrtBetween(v, 0, v)

nrows(X) == Len(X)
ncols(X) == Len(X[1])
Column(X, j) == Tab(LAMBDA i : X[i][j], Len(X))

\* the permutations of 1..n (the outcomes of np.random.shuffle on n rows)
Perms(n) == {p \in [1..n -> 1..n] : \A i, j \in 1..n : p[i] = p[j] => i = j}

\* ------------------------------------------------- sklearn collaborators
\* check_array accepts a 2-D array with at least one row and one column
check_array(X) == Len(X) >= 1 /\ Len(X[1]) >= 1

Mean(col) == SumSeq(col) \div Len(col)
Variance(col) ==
    LET m == Mean(col)
    IN SumSeq(Tab(LAMBDA i : (col[i] - m) * (col[i] - m), Len(col))) \div Len(col)
\* StandardScaler replaces a zero scale by 1.0
ScaleOf(col) == LET s == Sqrt(Variance(col)) IN IF s = 0 THEN Scale ELSE s

\* StandardScaler().fit(X): per-feature mean_ and scale_
scaler_fit(X) ==
    [mean_  |-> Tab(LAMBDA j : Mean(Column(X, j)), ncols(X)),
     scale_ |-> Tab(LAMBDA j : ScaleOf(Column(X, j)), ncols(X))]

\* scaler.transform raises when the feature count differs from the fitted one
scaler_accepts(sc, X) == ncols(X) = Len(sc.mean_)

\* scaler.transform(X): a new array, (x - mean_) / scale_ per feature
scaler_transform(sc, X) ==
    Tab(LAMBDA i :
            Tab(LAMBDA j : ((X[i][j] - sc.mean_[j]) * Scale) \div sc.scale_[j],
                Len(X[i])),
        Len(X))

\* variant: only model_ is looked at
check_is_fitted_model_only(self) == self.model_ # None

\* check_is_fitted(self, ['model_', 'history_']): every listed attribute is set
check_is_fitted(self) == self.model_ # None /\ self.history_ # None

\* -------------------------------------------------------------- the network
Dense(units, name) == [kind |-> "Dense", units |-> units, name |-> name]
Dropout == [kind |-> "Dropout", units |-> 0, name |-> ""]

\* a float center (hyperparameter c, or the 0.0 placeholder)
FloatC(v) == [scalar |-> TRUE, v |-> <<v>>]
\* an array center (the result of _init_c)
ArrayC(v) == [scalar |-> FALSE, v |-> v]

RECURSIVE MidLayers(_, _)
\* the loop over hidden_neurons_[1:-1]: a Dense and a Dropout per width
MidLayers(hn, i) ==
    IF i > Len(hn) - 1 THEN <<>>
    ELSE <<Dense(hn[i], ""), Dropout>> \o MidLayers(hn, i + 1)

RECURSIVE DecoderLayers(_, _)
\* the loop over hidden_neurons_[::-1]: a Dense and a Dropout per width
DecoderLayers(hn, i) ==
    IF i < 1 THEN <<>>
    ELSE <<Dense(hn[i], ""), Dropout>> \o DecoderLayers(hn, i - 1)

\* the encoder chain: first layer, the middle loop, the 'net_output' layer
Encoder(hn) ==
    <<Dense(hn[1], "")>> \o MidLayers(hn, 2) \o <<Dense(hn[Len(hn)], "net_output")>>

\* _build_model: the compiled network.  w stands for the weights it holds
\* (drawn at random by Keras); c is the center baked into the distance output.
_build_model(self, w) ==
    [n_in    |-> Get(self.n_features_),
     encoder |-> Encoder(self.hidden_neurons_),
     decoder |-> IF self.use_ae
                 THEN DecoderLayers(self.hidden_neurons_, Len(self.hidden_neurons_))
                          \o <<Dense(Get(self.n_features_), "")>>
                 ELSE <<>>,
     c       |-> Get(self.c),
     w       |-> w]

relu(x) == IF x > 0 THEN x ELSE 0

\* forward pass of one Dense layer (hidden_activation relu, zero bias)
dense_forward(units, w, in) ==
    LET total == SumSeq(in)
    IN Tab(LAMBDA k : relu((w * k * total) \div (units * Len(in))), units)

RECURSIVE forward(_, _, _)
\* forward pass through a chain of layers; Dropout is the identity at predict
forward(layers, w, in) ==
    IF layers = <<>> THEN in
    ELSE forward(Tail(layers), w,
                 IF Head(layers).kind = "Dense"
                 THEN dense_forward(Head(layers).units, w, in)
                 ELSE in)

\* the output of layer 'net_output' for one row
embed(model, row) == forward(model.encoder, model.w, row)

CenterAt(c, j) == IF c.scalar THEN c.v[1] ELSE c.v[j]

\* model.predict(X): dist = reduce_sum((x - c) ** 2) per row
predict(model, X) ==
    Tab(LAMBDA i :
            LET e == embed(model, X[i])
            IN SumSeq(Tab(LAMBDA j : (e[j] - CenterAt(model.c, j))
                                        * (e[j] - CenterAt(model.c, j)),
                          Len(e))),
        Len(X))

\* model.predict raises on rows of the wrong width
model_accepts(model, X) == ncols(X) = model.n_in

\* ------------------------------------------------------------ construction
\* the stored hyperparameters and the absent fitted attributes
Stored(a) ==
    [c               |-> a.c,
     use_ae          |-> a.use_ae,
     hidden_neurons  |-> IF a.hidden_neurons = None
                         THEN <<64, 32>> ELSE Get(a.hidden_neurons),
     hidden_neurons_ |-> IF a.hidden_neurons = None
                         THEN <<64, 32>> ELSE Get(a.hidden_neurons),
     validation_size |-> a.validation_size,
     preprocessing   |-> a.preprocessing,
     validation_data |-> a.validation_data,
     n_samples_      |-> None,
     n_features_     |-> None,
     scaler_         |-> None,
     model_          |-> None,
     history_        |-> None,
     decision_scores_ |-> None]

\* variant: validation_size is kept beside a supplied validation set
__init__keeps_both(a) == Stored(a)

\* __init__: a supplied validation set clears validation_size
__init__(a) ==
    LET s0 == Stored(a)
    IN IF s0.validation_data # None
       THEN [s0 EXCEPT !.validation_size = None]
       ELSE s0

\* ------------------------------------------------------- center resolution
\* eps=0.1, the default of _init_c
eps == Scale \div 10

\* the two masked assignments that push near-zero coordinates to -eps / eps
clamp(out_) ==
    Tab(LAMBDA j :
            IF Abs(out_[j]) < eps /\ out_[j] < 0 THEN -eps
            ELSE IF Abs(out_[j]) < eps /\ out_[j] > 0 THEN eps
            ELSE out_[j],
        Len(out_))

\* the mean of the 'net_output' embeddings over the rows of X_norm
mean_embedding(model, X_norm) ==
    LET out == Tab(LAMBDA i : embed(model, X_norm[i]), Len(X_norm))
        nf_predict == Len(out)
    IN Tab(LAMBDA j : SumSeq(Column(out, j)) \div nf_predict, Len(out[1]))

\* _init_c: self.c becomes the clamped mean embedding
_init_c(self, X_norm) ==
    [self EXCEPT !.c = Some(ArrayC(clamp(mean_embedding(Get(self.model_), X_norm))))]

\* ------------------------------------------------------------------- fit
\* a freshly allocated array (np.copy, fit_transform, transform)
fresh(a) == [a |-> a, view_of_X |-> FALSE]

\* np.random.shuffle(X_norm) with outcome p: the rows permuted in place
shuffle(buf, p) == [buf EXCEPT !.a = Tab(LAMBDA i : buf.a[p[i]], Len(buf.a))]

\* variant: a smallest width equal to the feature count is rejected too
ae_config_error_ge(self) ==
    MinSeq(self.hidden_neurons) >= Get(self.n_features_) /\ self.use_ae

\* the configuration check of fit
ae_config_error(self) ==
    MinSeq(self.hidden_neurons) > Get(self.n_features_) /\ self.use_ae

\* what one fit call leaves behind and reports
FitResult(self, X_after, outcome, builds, resolved, out_, train) ==
    [self |-> self, X_after |-> X_after, outcome |-> outcome, builds |-> builds,
     resolved |-> resolved, out_ |-> out_, train |-> train]

\* the arguments model_.fit is called with
TrainArgs(self, X_norm) ==
    [x |-> X_norm,
     validation_split |-> self.validation_size,
     validation_data  |-> self.validation_data]

\* variant: the shuffled training array is scored as it is
rescore_input_shuffled(self, X, X_norm) == X_norm

\* the recomputation of X_norm from the original X after training
rescore_input(self, X, X_norm) ==
    IF self.preprocessing THEN scaler_transform(Get(self.scaler_), X) ELSE X

\* the tail of fit, from the second _build_model call on; w1 stands for the
\* weights the final network holds once model_.fit has run (or has failed)
fit_final(self3, X, buf, builds, resolved, out_, env) ==
    LET self4 == [self3 EXCEPT !.model_ = Some(_build_model(self3, env.w1))]
        train == TrainArgs(self4, buf.a)
        X_after == IF buf.view_of_X THEN buf.a ELSE X
        val_mismatch == self4.validation_data # None
                        /\ ncols(Get(self4.validation_data)) # ncols(X)
    IN IF env.fail = "train" \/ val_mismatch
       THEN FitResult(self4, X_after, "TrainError", builds + 1, resolved, out_,
                      Some(train))
       ELSE LET self5 == [self4 EXCEPT !.history_ =
                             Some([val_loss |-> train.validation_split # None
                                                \/ train.validation_data # None])]
                X_norm == rescore_input(self5, X, buf.a)
                self6 == [self5 EXCEPT !.decision_scores_ =
                             Some(predict(Get(self5.model_), X_norm))]
            IN FitResult(self6, X_after, "ok", builds + 1, resolved, out_,
                         Some(train))

\* fit from the configuration check on
fit_build(self2, X, buf, env) ==
    LET X_after == IF buf.view_of_X THEN buf.a ELSE X
    IN IF ae_config_error(self2)
       THEN FitResult(self2, X_after, "ConfigError", 0, FALSE, <<>>, None)
       ELSE IF self2.c = None
       THEN LET self3a == [self2 EXCEPT !.c = Some(FloatC(0))]
                self3b == [self3a EXCEPT
                              !.model_ = Some(_build_model(self3a, env.w0))]
            IN IF env.fail = "center"
               THEN FitResult(self3b, X_after, "CenterError", 1, FALSE, <<>>, None)
               ELSE fit_final(_init_c(self3b, buf.a), X, buf, 1, TRUE,
                              mean_embedding(Get(self3b.model_), buf.a), env)
       ELSE fit_final(self2, X, buf, 0, FALSE, <<>>, env)

\* _set_n_classes and _process_decision_scores belong to BaseDetector; they
\* derive _classes, threshold_ and labels_, which no operation here reads.
\*
\* fit(X) with the environment's choices env = [p, w0, w1, fail]: p the
\* shuffle's outcome, w0 and w1 the weights of the placeholder and the final
\* network, fail the collaborator call that raises ("none", "center": the
\* predict of _init_c, "train": model_.fit)
fit(self, X, env) ==
    IF ~check_array(X)
    THEN FitResult(self, X, "InputError", 0, FALSE, <<>>, None)
    ELSE IF self.validation_data # None /\ ~check_array(Get(self.validation_data))
    THEN FitResult(self, X, "InputError", 0, FALSE, <<>>, None)
    ELSE
    LET X_val == self.validation_data
        self1 == [self EXCEPT !.n_samples_  = Some(nrows(X)),
                              !.n_features_ = Some(ncols(X))]
    IN IF ~self1.preprocessing
       THEN LET buf0 == fresh(X)
                buf == IF self1.validation_size # None
                       THEN shuffle(buf0, env.p) ELSE buf0
            IN fit_build(self1, X, buf, env)
       ELSE
       LET sc == scaler_fit(X)
           self1s == [self1 EXCEPT !.scaler_ = Some(sc)]
           buf0 == fresh(scaler_transform(sc, X))
       IN IF X_val # None /\ ~scaler_accepts(sc, Get(X_val))
          THEN FitResult(self1s, X, "InputError", 0, FALSE, <<>>, None)
          ELSE
          LET self2 == IF X_val # None
                       THEN [self1s EXCEPT !.validation_data =
                                Some(scaler_transform(sc, Get(X_val)))]
                       ELSE self1s
              buf == IF self2.validation_size # None
                     THEN shuffle(buf0, env.p) ELSE buf0
          IN fit_build(self2, X, buf, env)

\* ------------------------------------------------------ decision_function
CallResult(self, outcome, ret) == [self |-> self, outcome |-> outcome, ret |-> ret]

\* variant: the scaler is fit again on the scored data
score_input_refit(self, X) ==
    LET sc == scaler_fit(X)
    IN [self |-> IF self.preprocessing THEN [self EXCEPT !.scaler_ = Some(sc)]
                 ELSE self,
        ok |-> TRUE,
        a |-> IF self.preprocessing THEN scaler_transform(sc, X) ELSE X]

\* the scoring input: the frozen scaler applied to X, or a copy of X; ok is
\* whether the transform accepts the feature count of X
score_input(self, X) ==
    [self |-> self,
     ok |-> self.preprocessing => scaler_accepts(Get(self.scaler_), X),
     a |-> IF self.preprocessing /\ scaler_accepts(Get(self.scaler_), X)
           THEN scaler_transform(Get(self.scaler_), X) ELSE X]

decision_function(self, X) ==
    IF ~check_is_fitted(self) THEN CallResult(self, "NotFittedError", <<>>)
    ELSE IF ~check_array(X) THEN CallResult(self, "InputError", <<>>)
    ELSE LET n == score_input(self, X)
         IN IF ~n.ok \/ ~model_accepts(Get(n.self.model_), n.a)
            THEN CallResult(n.self, "InputError", <<>>)
            ELSE CallResult(n.self, "ok", predict(Get(n.self.model_), n.a))

\* ---------------------------------------------------------- state machine
VARIABLES
    self,       \* the estimator's attributes
    ctor,       \* the arguments the estimator was constructed with
    last_fit,   \* the latest fit call: its input, outcome and what it did
    call,       \* the latest call: operation, input, outcome, return value
    nfit,       \* fit calls made so far
    fitted_ok   \* whether some fit call has returned normally

vars == <<self, ctor, last_fit, call, nfit, fitted_ok>>

\* the arrays callers pass: malformed (no rows), one row, two rows, two features
XInputs ==
    { <<>>,
      << <<0>> >>,
      << <<0>>, <<2 * Scale>> >>,
      << <<0, Scale>>, <<2 * Scale, 3 * Scale>> >> }

\* the validation features a caller may supply
ValInputs ==
    { <<>>,
      << <<0>>, <<Scale>> >> }

\* hidden_neurons: lists of one, two and three widths (the default list
\* <<64, 32>> behaves as a list of two)
HiddenArgs == { Some(<<2>>), Some(<<3, 2>>), Some(<<3, 2, 1>>) }

CtorArgs ==
    [c               : {None, Some(FloatC(Scale \div 2))},
     use_ae          : BOOLEAN,
     hidden_neurons  : HiddenArgs,
     validation_data : {None} \cup {Some(v) : v \in ValInputs},
     validation_size : {None, Some(Scale \div 10)},
     preprocessing   : BOOLEAN]

\* the weights a network may hold
Weights == {-1, 1}
\* the weights of the placeholder network, drawn only when fit builds it
InitWeights(s) == IF s.c = None THEN Weights ELSE {1}
\* the collaborator call that raises: none, the predict of _init_c (reached
\* only when the center is unset), or model_.fit
Failures(s) == {"none", "train"} \cup (IF s.c = None THEN {"center"} ELSE {})
\* the outcomes of the shuffle, drawn only when fit shuffles
Shuffles(s, X) ==
    IF s.validation_size # None THEN Perms(Len(X)) ELSE {[i \in 1..Len(X) |-> i]}

NoFit ==
    [called |-> FALSE, X |-> <<>>, X_after |-> <<>>, outcome |-> "none",
     builds |-> 0, resolved |-> FALSE, out_ |-> <<>>, train |-> None]

Init ==
    /\ ctor \in CtorArgs
    /\ self = __init__(ctor)
    /\ last_fit = NoFit
    /\ call = [op |-> "__init__", X |-> <<>>, outcome |-> "ok", ret |-> <<>>]
    /\ nfit = 0
    /\ fitted_ok = FALSE

Fit ==
    /\ nfit < MaxFits
    /\ \E X \in XInputs, w0 \in InitWeights(self), w1 \in Weights,
          fail \in Failures(self) :
         \E p \in Shuffles(self, X) :
            \E r \in {fit(self, X, [p |-> p, w0 |-> w0, w1 |-> w1, fail |-> fail])} :
               /\ self' = r.self
               /\ last_fit' = [called |-> TRUE, X |-> X, X_after |-> r.X_after,
                               outcome |-> r.outcome, builds |-> r.builds,
                               resolved |-> r.resolved, out_ |-> r.out_,
                               train |-> r.train]
               /\ call' = [op |-> "fit", X |-> X, outcome |-> r.outcome,
                           ret |-> <<>>]
               /\ fitted_ok' = (fitted_ok \/ r.outcome = "ok")
    /\ nfit' = nfit + 1
    /\ UNCHANGED ctor

DecisionFunction ==
    /\ \E X \in XInputs :
         \E r \in {decision_function(self, X)} :
            /\ self' = r.self
            /\ call' = [op |-> "decision_function", X |-> X,
                        outcome |-> r.outcome, ret |-> r.ret]
    /\ UNCHANGED <<ctor, last_fit, nfit, fitted_ok>>

Next == Fit \/ DecisionFunction

Spec == Init /\ [][Next]_vars

\* ------------------------------------------------------------------ claims
\* the fitted attributes of the estimator
FittedAttrs(s) ==
    <<s.n_samples_, s.n_features_, s.scaler_, s.model_, s.history_,
      s.decision_scores_>>

\* the hyperparameters of the estimator other than the center c
Hyper(s) ==
    <<s.use_ae, s.hidden_neurons, s.validation_size, s.preprocessing,
      s.validation_data>>

\* C1: a fit call that fails changes none of the fitted attributes, nor the
\* center c, nor validation_data.
C1_FailedFitLeavesNoTrace ==
    [][(nfit' = nfit + 1 /\ last_fit'.outcome # "ok")
          => /\ FittedAttrs(self') = FittedAttrs(self)
             /\ self'.c = self.c
             /\ self'.validation_data = self.validation_data]_vars

\* C2: after a successful fit on X, decision_scores_ has one entry per row of
\* X, equal to what decision_function returns for X in the caller's row order,
\* and the caller's X is as it was.
C2_TrainingScoresInCallerOrder ==
    (last_fit.called /\ last_fit.outcome = "ok")
        => /\ self.decision_scores_ # None
           /\ Len(Get(self.decision_scores_)) = nrows(last_fit.X)
           /\ decision_function(self, last_fit.X).outcome = "ok"
           /\ \A i \in 1..nrows(last_fit.X) :
                 Get(self.decision_scores_)[i]
                     = decision_function(self, last_fit.X).ret[i]
           /\ last_fit.X_after = last_fit.X

\* C2 witness: a successful fit whose shuffle reordered the training rows and
\* whose rows score differently.
C2_Witness ==
    /\ last_fit.called /\ last_fit.outcome = "ok"
    /\ nrows(last_fit.X) = 2
    /\ Get(last_fit.train).validation_split # None
    /\ Get(last_fit.train).x # rescore_input(self, last_fit.X, <<>>)
    /\ Get(self.decision_scores_)[1] # Get(self.decision_scores_)[2]

\* C3: every raw mean coordinate with |v| < eps is resolved to -eps when
\* negative and to +eps when zero or positive, every other one is unchanged,
\* so no coordinate of the resolved center is below eps in absolute value.
C3_ClampLeavesNoNearZero ==
    last_fit.resolved
        => \A j \in 1..Len(last_fit.out_) :
              LET raw == last_fit.out_[j]
                  cj  == Get(self.c).v[j]
              IN /\ (Abs(raw) < eps => cj = IF raw < 0 THEN -eps ELSE eps)
                 /\ (Abs(raw) >= eps => cj = raw)
                 /\ Abs(cj) >= eps

\* the condition the claim gives for the configuration error
AeWidthsExceed(X) ==
    self.use_ae /\ MinSeq(self.hidden_neurons) > ncols(X)

\* C4 as stated: fit on X raises the configuration error exactly when use_ae
\* is set and the smallest hidden width exceeds the feature count of X, and
\* then no network has been built.
C4_ConfigErrorExactly ==
    (last_fit.called /\ check_array(last_fit.X))
        => /\ (last_fit.outcome = "ConfigError") <=> AeWidthsExceed(last_fit.X)
           /\ last_fit.outcome = "ConfigError" => last_fit.builds = 0

\* C4 amended: the same for every fit call whose X and validation set pass
\* input validation.
C4_ConfigErrorExactlyOnceValidated ==
    (last_fit.called /\ last_fit.outcome # "InputError")
        => /\ (last_fit.outcome = "ConfigError") <=> AeWidthsExceed(last_fit.X)
           /\ last_fit.outcome = "ConfigError" => last_fit.builds = 0

\* C4 witness: a fit call that raised the configuration error.
C4_Witness ==
    /\ last_fit.called /\ last_fit.outcome = "ConfigError"
    /\ AeWidthsExceed(last_fit.X)

\* C5: a validation set given at construction clears validation_size; the two
\* are never both set, and model_.fit is never called with both.
C5_ValidationExclusive ==
    /\ ctor.validation_data # None => self.validation_size = None
    /\ ~(self.validation_data # None /\ self.validation_size # None)
    /\ last_fit.train # None
          => ~(/\ Get(last_fit.train).validation_split # None
               /\ Get(last_fit.train).validation_data # None)

\* C5 witness: constructed with both, and a fit that reached the training loop.
C5_Witness ==
    /\ ctor.validation_data # None /\ ctor.validation_size # None
    /\ last_fit.called /\ last_fit.outcome = "ok"
    /\ Get(last_fit.train).validation_data # None

\* C6: decision_function changes no attribute of the estimator, returns one
\* score per row, and returns the same as the call before it on the same input.
C6_ScoringHasNoSideEffect ==
    [][call'.op = "decision_function"
          => /\ self' = self
             /\ call'.outcome = "ok" => Len(call'.ret) = nrows(call'.X)
             /\ (call.op = "decision_function" /\ call.X = call'.X)
                    => (call'.outcome = call.outcome /\ call'.ret = call.ret)]_vars

\* C6 witness: a scoring call that standardized its input and returned scores.
C6_Witness ==
    /\ call.op = "decision_function" /\ call.outcome = "ok"
    /\ self.preprocessing
    /\ nrows(call.X) = 2
    /\ call.X # last_fit.X

C8_CenterResolvedInEveryFit ==
    (last_fit.called /\ last_fit.outcome = "ok")
        => /\ last_fit.resolved <=> ctor.c = None
           /\ ctor.c # None => self.c = ctor.c

\* the encoder the claim describes: one Dense per width, a Dropout after each
\* but the first and the last, the last Dense named net_output
RECURSIVE ClaimedEncoder(_, _)
ClaimedEncoder(hn, k) ==
    IF k > Len(hn) THEN <<>>
    ELSE <<Dense(hn[k], IF k = Len(hn) THEN "net_output" ELSE "")>>
            \o (IF 1 < k /\ k < Len(hn) THEN <<Dropout>> ELSE <<>>)
            \o ClaimedEncoder(hn, k + 1)

\* C9: the encoder of a built network has one Dense layer per configured
\* width, in order, and a Dropout after each one but the first and the last.
C9_OneDensePerWidth ==
    self.model_ # None
        => Get(self.model_).encoder = ClaimedEncoder(self.hidden_neurons, 1)

\* C10: with standardization on and a validation set supplied, every fit
\* hands the training loop the constructor's validation features transformed
\* once by that call's scaler, and leaves the hyperparameters as constructed.
C10_ValidationStandardizedOnce ==
    (last_fit.called /\ last_fit.train # None /\ self.preprocessing
        /\ ctor.validation_data # None)
        => /\ Get(last_fit.train).validation_data
                 = Some(scaler_transform(Get(self.scaler_),
                                         Get(ctor.validation_data)))
           /\ Hyper(self) = Hyper(__init__(ctor))

====
